---- MODULE Spec2Model ----
(***************************************************************************)
(* A model of app.py (AI Productivity Brain): the task-line parser and     *)
(* serializer, the remote call with its local fallbacks, the greedy        *)
(* fallback day packer, and the buttons of the Streamlit page with the     *)
(* session variables they write.                                           *)
(*                                                                         *)
(* A Python str is a sequence of one-character strings.  A Python value    *)
(* that may be None, an int or a str is a record tagged by its type.       *)
(* A datetime is the number of minutes since 00:00 of the plan's date.     *)
(***************************************************************************)
EXTENDS Integers, Sequences, FiniteSets, TLC

VARIABLES
    hasToken,   \* whether st.secrets holds HF_TOKEN
    session,    \* st.session_state: the keys "prioritized" and "plan"
    run,        \* the last script run: the button pressed, its inputs, what it showed
    pack,       \* one call of the fallback packer: its inputs and its result
    trip        \* one parse / serialize / parse round trip

vars == <<hasToken, session, run, pack, trip>>

----------------------------------------------------------------------------
(* Python values *)

None == [py |-> "None"]
PyInt(n) == [py |-> "int", v |-> n]
PyStr(s) == [py |-> "str", v |-> s]

\* bool(x) of a value that is None, an int or a str
Truthy(x) ==
    CASE x.py = "None" -> FALSE
      [] x.py = "int" -> x.v # 0
      [] x.py = "str" -> x.v # <<>>

----------------------------------------------------------------------------
(* str methods *)

Whitespace == {" ", "\n"}
DigitChars == <<"0", "1", "2", "3", "4", "5", "6", "7", "8", "9">>

RECURSIVE lstrip(_)
lstrip(s) == IF s # <<>> /\ Head(s) \in Whitespace THEN lstrip(Tail(s)) ELSE s

RECURSIVE rstrip(_)
rstrip(s) ==
    IF s # <<>> /\ s[Len(s)] \in Whitespace
    THEN rstrip(SubSeq(s, 1, Len(s) - 1))
    ELSE s

strip(s) == rstrip(lstrip(s))

RECURSIVE split(_, _)
split(s, sep) ==
    IF \E i \in 1..Len(s) : s[i] = sep
    THEN LET i == CHOOSE k \in 1..Len(s) :
                      s[k] = sep /\ \A j \in 1..(k - 1) : s[j] # sep
         IN  <<SubSeq(s, 1, i - 1)>> \o split(SubSeq(s, i + 1, Len(s)), sep)
    ELSE <<s>>

\* a final line break ends the last line and opens no new one
splitlines(s) ==
    LET p == split(s, "\n")
    IN  IF p[Len(p)] = <<>> THEN SubSeq(p, 1, Len(p) - 1) ELSE p

RECURSIVE join(_, _)
join(sep, parts) ==
    IF parts = <<>> THEN <<>>
    ELSE IF Len(parts) = 1 THEN parts[1]
    ELSE parts[1] \o sep \o join(sep, Tail(parts))

isdigit(s) ==
    s # <<>> /\ \A i \in 1..Len(s) : \E d \in 1..10 : DigitChars[d] = s[i]

DigitValue(c) == (CHOOSE d \in 1..10 : DigitChars[d] = c) - 1

\* int(s) of a string of decimal digits
RECURSIVE int(_)
int(s) ==
    IF s = <<>> THEN 0
    ELSE 10 * int(SubSeq(s, 1, Len(s) - 1)) + DigitValue(s[Len(s)])

\* str(n) of an int n >= 0
RECURSIVE str(_)
str(n) ==
    IF n < 10 THEN <<DigitChars[n + 1]>>
    ELSE str(n \div 10) \o <<DigitChars[(n % 10) + 1]>>

----------------------------------------------------------------------------
(* Helpers: parse_tasks and tasks_to_lines *)

parse_line(line) ==
    LET raw_parts == split(line, "|")
        parts == [i \in 1..Len(raw_parts) |-> strip(raw_parts[i])]
    IN  [task |-> parts[1],
         est_min |-> IF Len(parts) > 1 /\ isdigit(parts[2])
                     THEN PyInt(int(parts[2])) ELSE None,
         due |-> IF Len(parts) > 2 /\ parts[3] # <<>>
                 THEN PyStr(parts[3]) ELSE None,
         context |-> IF Len(parts) > 3 THEN parts[4] ELSE <<>>]

RECURSIVE parse_lines(_)
parse_lines(ls) ==
    IF ls = <<>> THEN <<>>
    ELSE LET line == strip(Head(ls))
         IN  (IF line = <<>> THEN <<>> ELSE <<parse_line(line)>>)
                 \o parse_lines(Tail(ls))

parse_tasks(raw_text) == parse_lines(splitlines(raw_text))

\* mutant: the fields are joined by a bare "|"
task_to_line_bare(t) ==
    join(<<"|">>,
         <<t.task>>
             \o (IF Truthy(t.est_min) THEN <<str(t.est_min.v)>> ELSE <<>>)
             \o (IF Truthy(t.due) THEN <<t.due.v>> ELSE <<>>)
             \o (IF t.context # <<>> THEN <<t.context>> ELSE <<>>))

task_to_line(t) ==
    join(<<" ", "|", " ">>,
         <<t.task>>
             \o (IF Truthy(t.est_min) THEN <<str(t.est_min.v)>> ELSE <<>>)
             \o (IF Truthy(t.due) THEN <<t.due.v>> ELSE <<>>)
             \o (IF t.context # <<>> THEN <<t.context>> ELSE <<>>))

tasks_to_lines(tasks) ==
    join(<<"\n">>, [i \in 1..Len(tasks) |-> task_to_line(tasks[i])])

----------------------------------------------------------------------------
(* datetime: a datetime is minutes since 00:00 of the plan's date; a time    *)
(* formatted "%H:%M" is the pair <<hour, minute>>                            *)

MinutesPerDay == 24 * 60

\* datetime.strptime(date_str + " " + hhmm, "%Y-%m-%d %H:%M")
strptime(hhmm) == hhmm[1] * 60 + hhmm[2]

\* dt.time(), as minutes since midnight
time_of(dt) == dt % MinutesPerDay

\* dt.strftime("%H:%M")
strftime(dt) == <<time_of(dt) \div 60, time_of(dt) % 60>>

----------------------------------------------------------------------------
(* ai_daily_plan: the greedy fallback schedule of its except branch *)

PackDefaultEst == 30
BufferMinutes == 10

\* mutant: a missing estimate counts as no time at all
pack_est_no_default(t) == IF Truthy(t.est_min) THEN t.est_min ELSE PyInt(0)

\* t.get("est_min") or 30
pack_est(t) == IF Truthy(t.est_min) THEN t.est_min ELSE PyInt(PackDefaultEst)

\* mutant: the buffer between two blocks is forgotten
next_start_no_buffer(end_dt) == end_dt

\* start_dt = end_dt + timedelta(minutes=10)
next_start(end_dt) == end_dt + BufferMinutes

\* mutant: the day counts as full already at the work-day end
day_full_at_end(start_dt, day_end) == time_of(start_dt) >= time_of(strptime(day_end))

\* mutant: the loop never breaks
day_full_never(start_dt, day_end) == FALSE

\* start_dt.time() > strptime(day_end).time(): the day is full
day_full(start_dt, day_end) == time_of(start_dt) > time_of(strptime(day_end))

\* the for loop from task i on, the cursor at start_dt; timedelta(minutes=est)
\* raises TypeError when est is a str
RECURSIVE pack_loop(_, _, _, _)
pack_loop(prioritized, i, start_dt, day_end) ==
    IF i > Len(prioritized) THEN [raised |-> FALSE, schedule |-> <<>>]
    ELSE LET t == prioritized[i]
             est == pack_est(t)
         IN  IF est.py # "int" THEN [raised |-> TRUE, schedule |-> <<>>]
             ELSE LET end_dt == start_dt + est.v
                      block == [start |-> strftime(start_dt),
                                end |-> strftime(end_dt),
                                task |-> t.task,
                                notes |-> t.reason]
                      next_dt == next_start(end_dt)
                      rest == IF day_full(next_dt, day_end)
                              THEN [raised |-> FALSE, schedule |-> <<>>]
                              ELSE pack_loop(prioritized, i + 1, next_dt, day_end)
                  IN  [raised |-> rest.raised,
                       schedule |-> IF rest.raised THEN <<>>
                                    ELSE <<block>> \o rest.schedule]

\* the except branch of ai_daily_plan: the returned {"date", "schedule"}, or the
\* exception that leaves it
fallback_plan(prioritized, day_start, day_end) ==
    IF prioritized.shape # "tasks" THEN [raised |-> TRUE, schedule |-> <<>>]
    ELSE pack_loop(prioritized.items, 1, strptime(day_start), day_end)

----------------------------------------------------------------------------
(* call_hf_model.  A response is what requests.post brings back: arrived is  *)
(* FALSE when it raised (a timeout, no connection); body is the shape of the *)
(* response's JSON; text is the generated text it carries.  A text is its    *)
(* lines and the value json.loads gives for it (kind "prose": it raises).    *)

NoText == [kind |-> "none", lines |-> <<>>, value |-> [shape |-> "none"]]
NoResponse == [arrived |-> FALSE, status |-> 0, body |-> "none", text |-> NoText]

\* json.dumps(data) of a response that carries no generated_text
OtherJsonText ==
    [kind |-> "json", lines |-> <<"{\"error\": \"...\"}">>,
     value |-> [shape |-> "other"]]

call_hf_model(token, resp) ==
    IF ~token
    THEN [raised |-> TRUE, requested |-> FALSE, text |-> NoText]
    ELSE IF ~resp.arrived \/ resp.status # 200
              \/ resp.body \in {"not_json", "empty_list"}
    THEN [raised |-> TRUE, requested |-> TRUE, text |-> NoText]
    ELSE IF resp.body \in {"generated_list", "generated_dict"}
    THEN [raised |-> FALSE, requested |-> TRUE, text |-> resp.text]
    ELSE [raised |-> FALSE, requested |-> TRUE, text |-> OtherJsonText]

\* json.loads of the text, or of its part between the outermost brackets
json_loads(out) ==
    IF out.kind = "json"
    THEN [raised |-> FALSE, value |-> out.value]
    ELSE [raised |-> TRUE, value |-> [shape |-> "none"]]

----------------------------------------------------------------------------
(* ai_prioritize *)

DefaultEstMin == 30

max(a, b) == IF a >= b THEN a ELSE b

\* mutant: the score is not kept at 10 or more
priority_score_unclamped(i) == 100 - i * 10

\* "priority_score": max(100 - i*10, 10), i counted from 0
priority_score(i) == max(100 - i * 10, 10)

\* "quadrant": "Do now" if i<2 else "Schedule", i counted from 0
quadrant(i) == IF i < 2 THEN "Do now" ELSE "Schedule"

\* "est_min": t.get("est_min") or 30
fallback_est(t) == IF Truthy(t.est_min) THEN t.est_min ELSE PyInt(DefaultEstMin)

prioritize_fallback(tasks) ==
    [shape |-> "tasks",
     items |-> [k \in 1..Len(tasks) |->
                   [task |-> tasks[k].task,
                    est_min |-> fallback_est(tasks[k]),
                    due |-> tasks[k].due,
                    priority_score |-> priority_score(k - 1),
                    quadrant |-> quadrant(k - 1),
                    suggested_time |-> None,
                    reason |-> "Fallback: default priority"]]]

ai_prioritize(tasks, token, resp) ==
    LET call == call_hf_model(token, resp)
        loaded == json_loads(call.text)
    IN  IF ~call.raised /\ ~loaded.raised
        THEN [raised |-> FALSE, requested |-> call.requested, fallback |-> FALSE,
              value |-> loaded.value]
        ELSE [raised |-> FALSE, requested |-> call.requested, fallback |-> TRUE,
              value |-> prioritize_fallback(tasks)]

----------------------------------------------------------------------------
(* ai_daily_plan *)

ai_daily_plan(prioritized, day_start, day_end, token, resp) ==
    LET call == call_hf_model(token, resp)
        loaded == json_loads(call.text)
        packed == fallback_plan(prioritized, day_start, day_end)
    IN  IF ~call.raised /\ ~loaded.raised
        THEN [raised |-> FALSE, requested |-> call.requested, fallback |-> FALSE,
              value |-> loaded.value]
        ELSE [raised |-> packed.raised, requested |-> call.requested,
              fallback |-> TRUE,
              value |-> IF packed.raised THEN [shape |-> "none"]
                        ELSE [shape |-> "plan", date |-> "today",
                              schedule |-> packed.schedule]]

----------------------------------------------------------------------------
(* ai_nudges: a nudge is a sequence of lines *)

FallbackNudges ==
    << <<"Keep going - take one focused step now.">>,
       <<"Small wins compound into big gains.">>,
       <<"Focus and finish the most impactful task first.">> >>

ai_nudges(token, resp) ==
    LET call == call_hf_model(token, resp)
        ls == call.text.lines
    IN  IF call.raised
        THEN [raised |-> FALSE, requested |-> call.requested, fallback |-> TRUE,
              value |-> [shape |-> "nudges", items |-> FallbackNudges]]
        ELSE [raised |-> FALSE, requested |-> call.requested, fallback |-> FALSE,
              value |-> [shape |-> "nudges",
                         items |-> IF Len(ls) >= 3
                                   THEN [k \in 1..3 |-> <<ls[k]>>]
                                   ELSE <<ls>>]]

----------------------------------------------------------------------------
(* The values of the variables a specification does not use *)

NoSession == [k \in {} |-> None]
NoRun ==
    [button |-> "none", raw |-> <<>>, tasks |-> <<>>, day_start |-> <<0, 0>>, day_end |-> <<0, 0>>,
     response |-> NoResponse, called |-> "none", requested |-> FALSE,
     fallback |-> FALSE, op_raised |-> FALSE, crashed |-> FALSE, shown |-> {},
     result |-> [shape |-> "none"]]
NoPack == [stage |-> "off"]
NoTrip == [stage |-> "off"]

----------------------------------------------------------------------------
(* Spec: main, one script run per button press *)

MaxShortLines == 1
MaxLines == 11

\* the lines a user types
TaskLines ==
    << <<"a">>,
       <<"b", " ", "|", " ", "0">>,
       <<"c", " ", "|", " ", "9", "0", " ", "|", " ", "d", " ", "|", " ", "u">> >>
BlankLine == <<" ">>
UiLines == {TaskLines[k] : k \in 1..3} \cup {BlankLine}

\* the texts of a few lines, and one long text that repeats the task lines
RawTexts ==
    {join(<<"\n">>, ls) : ls \in UNION {[1..n -> UiLines] : n \in 0..MaxShortLines}}
        \cup {join(<<"\n">>, [k \in 1..MaxLines |-> TaskLines[((k - 1) % 3) + 1]])}

\* st.time_input "Day start" and "Day end": the defaults, and a shorter day
UiWindows ==
    { [day_start |-> <<9, 0>>, day_end |-> <<17, 0>>],
      [day_start |-> <<9, 0>>, day_end |-> <<10, 0>>] }

\* what the model may generate
ProseText == [kind |-> "prose", lines |-> <<"Sure!">>, value |-> [shape |-> "none"]]
ProseLines ==
    [kind |-> "prose", lines |-> <<"one", "two", "three", "four">>,
     value |-> [shape |-> "none"]]
RemoteTask(est) ==
    [task |-> <<"r">>, est_min |-> est, due |-> None, priority_score |-> 80,
     quadrant |-> "Do now", suggested_time |-> None, reason |-> "model"]
TasksJson(est) ==
    [kind |-> "json", lines |-> <<"[{...}]">>,
     value |-> [shape |-> "tasks", items |-> <<RemoteTask(est)>>]]
PlanJson ==
    [kind |-> "json", lines |-> <<"{...}">>,
     value |-> [shape |-> "plan", date |-> "today",
                schedule |-> <<[start |-> <<9, 0>>, end |-> <<10, 0>>,
                                task |-> <<"r">>, notes |-> "model"]>>]]
TextsFor(op) ==
    CASE op = "ai_prioritize" ->
             {ProseText, TasksJson(PyInt(60)), TasksJson(PyStr(<<"6", "0">>))}
      [] op = "ai_daily_plan" -> {ProseText, PlanJson}
      [] op = "ai_nudges" -> {ProseText, ProseLines}

Responses(op) ==
    {[arrived |-> FALSE, status |-> 0, body |-> "none", text |-> NoText],
     [arrived |-> TRUE, status |-> 503, body |-> "other", text |-> NoText],
     [arrived |-> TRUE, status |-> 200, body |-> "not_json", text |-> NoText],
     [arrived |-> TRUE, status |-> 200, body |-> "empty_list", text |-> NoText],
     [arrived |-> TRUE, status |-> 200, body |-> "other", text |-> NoText]}
        \cup {[arrived |-> TRUE, status |-> 200, body |-> b, text |-> t] :
                 b \in {"generated_list", "generated_dict"}, t \in TextsFor(op)}

\* st.session_state[key] = value
Put(state, key, value) ==
    [k \in DOMAIN state \cup {key} |-> IF k = key THEN value ELSE state[k]]

\* mutant: the empty task list is not caught
no_tasks_never(tasks) == FALSE

\* if not tasks
no_tasks(tasks) == tasks = <<>>

\* if "prioritized" not in st.session_state
no_prioritized(state) == "prioritized" \notin DOMAIN state

Init ==
    /\ hasToken \in BOOLEAN
    /\ session = NoSession
    /\ run = NoRun
    /\ pack = NoPack
    /\ trip = NoTrip

\* st.button("Analyze & Prioritize")
PressAnalyze ==
    \E raw \in RawTexts :
        \E tasks \in {parse_tasks(raw)} :
            /\ IF no_tasks(tasks)
               THEN /\ run' = [NoRun EXCEPT
                                  !.button = "analyze",
                                  !.raw = raw,
                                  !.shown = {"warning: Please enter tasks first."}]
                    /\ UNCHANGED session
               ELSE \E resp \in Responses("ai_prioritize") :
                      \E r \in {ai_prioritize(tasks, hasToken, resp)} :
                        /\ session' = Put(session, "prioritized", r.value)
                        /\ run' = [NoRun EXCEPT
                                      !.button = "analyze",
                                      !.raw = raw,
                                      !.tasks = tasks,
                                      !.response = IF r.requested THEN resp
                                                   ELSE NoResponse,
                                      !.called = "ai_prioritize",
                                      !.requested = r.requested,
                                      !.fallback = r.fallback,
                                      !.crashed = r.value.shape # "tasks",
                                      !.shown = {"success: Prioritization complete."},
                                      !.result = r.value]
            /\ UNCHANGED <<hasToken, pack, trip>>

\* st.button("Generate Today's Plan")
PressPlan ==
    /\ IF no_prioritized(session)
       THEN /\ run' = [NoRun EXCEPT
                          !.button = "plan",
                          !.shown = {"warning: Generate prioritization first."}]
            /\ UNCHANGED session
       ELSE \E w \in UiWindows, resp \in Responses("ai_daily_plan") :
              \E r \in {ai_daily_plan(session["prioritized"], w.day_start,
                                      w.day_end, hasToken, resp)} :
                \E ran \in {[NoRun EXCEPT
                                !.button = "plan",
                                !.day_start = w.day_start,
                                !.day_end = w.day_end,
                                !.response = IF r.requested THEN resp
                                             ELSE NoResponse,
                                !.called = "ai_daily_plan",
                                !.requested = r.requested,
                                !.fallback = r.fallback]} :
                    IF r.raised
                    THEN /\ run' = [ran EXCEPT !.op_raised = TRUE,
                                               !.crashed = TRUE]
                         /\ UNCHANGED session
                    ELSE /\ session' = Put(session, "plan", r.value)
                         /\ run' = [ran EXCEPT
                                       !.shown = {"success: Plan generated for today"},
                                       !.result = r.value]
    /\ UNCHANGED <<hasToken, pack, trip>>

\* st.button("Get Motivational Nudges")
PressNudges ==
    \E resp \in Responses("ai_nudges") :
        \E r \in {ai_nudges(hasToken, resp)} :
            /\ run' = [NoRun EXCEPT
                          !.button = "nudges",
                          !.response = IF r.requested THEN resp ELSE NoResponse,
                          !.called = "ai_nudges",
                          !.requested = r.requested,
                          !.fallback = r.fallback,
                          !.shown = {"nudges"},
                          !.result = r.value]
            /\ UNCHANGED <<hasToken, session, pack, trip>>

Next == PressAnalyze \/ PressPlan \/ PressNudges

Spec == Init /\ [][Next]_vars

----------------------------------------------------------------------------
(* SpecPack: the fallback packer on every task list and work-day window of   *)
(* the bounded input sets                                                    *)

MaxTasks == 3

PackNames == {<<"a">>, <<"b">>}
PackEsts == {None, PyInt(0), PyInt(90), PyInt(150), PyInt(470), PyInt(900)}
PackItems ==
    {[task |-> n, est_min |-> e, reason |-> ""] : n \in PackNames, e \in PackEsts}
PackLists == UNION {[1..n -> PackItems] : n \in 0..MaxTasks}
DayStarts == {<<9, 0>>, <<17, 0>>}
DayEnds == {<<10, 0>>, <<17, 0>>}

PackInit ==
    /\ pack \in {[stage |-> "input",
                  prioritized |-> [shape |-> "tasks", items |-> l],
                  day_start |-> ds,
                  day_end |-> de,
                  result |-> [raised |-> FALSE, schedule |-> <<>>]] :
                     l \in PackLists, ds \in DayStarts, de \in DayEnds}
    /\ hasToken = FALSE
    /\ session = NoSession
    /\ run = NoRun
    /\ trip = NoTrip

RunFallback ==
    /\ pack.stage = "input"
    /\ pack' = [pack EXCEPT
                   !.stage = "done",
                   !.result = fallback_plan(pack.prioritized, pack.day_start,
                                            pack.day_end)]
    /\ UNCHANGED <<hasToken, session, run, trip>>

PackNext == RunFallback

SpecPack == PackInit /\ [][PackNext]_vars

----------------------------------------------------------------------------
(* Claims about the fallback packer (SpecPack) *)

PackDone == pack.stage = "done"
PackTasks == pack.prioritized.items
Sched == pack.result.schedule
\* a block's start and end, and the work-day window, as minutes since midnight
StartOf(i) == Sched[i].start[1] * 60 + Sched[i].start[2]
EndOf(i) == Sched[i].end[1] * 60 + Sched[i].end[2]
WinStart == pack.day_start[1] * 60 + pack.day_start[2]
WinEnd == pack.day_end[1] * 60 + pack.day_end[2]
\* a time of day m minutes after the time of day t, on the 24-hour clock
ClockPlus(t, m) == (t + m) % (24 * 60)

\* C1: the fallback schedule of N tasks has at most N blocks, each block after
\* the first starts exactly 10 minutes (on the clock) after the end of the block
\* before it, and the schedule of an empty task list is empty.
C1_BufferChain ==
    PackDone =>
        /\ Len(Sched) <= Len(PackTasks)
        /\ \A i \in 1..(Len(Sched) - 1) : StartOf(i + 1) = ClockPlus(EndOf(i), 10)
        /\ (PackTasks = <<>> => Sched = <<>>)

\* C1 witness: a schedule of several blocks that is shorter than its task list
C1_Witness ==
    /\ PackDone
    /\ Len(Sched) >= 2
    /\ Len(Sched) < Len(PackTasks)

\* C2: the blocks of a fallback schedule are pairwise non-overlapping and
\* strictly increasing in start time (stated for a work day whose start is
\* before its end).
C2_IncreasingDisjoint ==
    (PackDone /\ WinStart < WinEnd) =>
        \A i \in 1..Len(Sched) :
            \A j \in (i + 1)..Len(Sched) :
                StartOf(i) < StartOf(j) /\ EndOf(i) <= StartOf(j)

\* C3: the schedule is the first k tasks in input order, k the smallest index
\* whose cursor (end of block k plus 10 minutes) has a time of day after the
\* work-day end, or N when there is none; nothing is emitted after that.
C3_StopsWhenFull ==
    PackDone =>
        /\ Len(Sched) <= Len(PackTasks)
        /\ (PackTasks # <<>> => Len(Sched) >= 1)
        /\ \A i \in 1..Len(Sched) : Sched[i].task = PackTasks[i].task
        /\ \A i \in 1..(Len(Sched) - 1) : ClockPlus(EndOf(i), 10) <= WinEnd
        /\ (Len(Sched) < Len(PackTasks) =>
                ClockPlus(EndOf(Len(Sched)), 10) > WinEnd)
        /\ \A i \in 2..Len(Sched) : StartOf(i) <= WinEnd

\* C3 witness: the packer stopped before the last task, after more than one block
C3_Witness ==
    /\ PackDone
    /\ Len(Sched) = 2
    /\ Len(PackTasks) = 3
    /\ ClockPlus(EndOf(2), 10) > WinEnd

\* C4, as claimed: with the work-day start before its end, every block starts
\* strictly before the work-day end.
C4_StartsBeforeEnd ==
    (PackDone /\ WinStart < WinEnd) =>
        \A i \in 1..Len(Sched) : StartOf(i) < WinEnd

\* C4, amended: with the work-day start before its end, every block starts at
\* or before the work-day end, and a task is dropped only when its start would
\* be strictly after the work-day end.
C4_StartsByEnd ==
    (PackDone /\ WinStart < WinEnd) =>
        /\ \A i \in 1..Len(Sched) : StartOf(i) <= WinEnd
        /\ (Len(Sched) < Len(PackTasks) =>
                ClockPlus(EndOf(Len(Sched)), 10) > WinEnd)

\* C4 witness: a block that starts exactly at the work-day end
C4_Witness ==
    /\ PackDone
    /\ WinStart < WinEnd
    /\ \E i \in 1..Len(Sched) : StartOf(i) = WinEnd

\* C5, as claimed: the first block starts at the work-day start and ends the
\* first task's estimate later, 30 minutes later when the estimate is absent.
C5_FirstBlockAsClaimed ==
    (PackDone /\ PackTasks # <<>>) =>
        /\ Len(Sched) >= 1
        /\ StartOf(1) = WinStart
        /\ EndOf(1) = ClockPlus(WinStart,
                                IF PackTasks[1].est_min = None THEN 30
                                ELSE PackTasks[1].est_min.v)

\* C5, amended: the first block starts at the work-day start and ends the first
\* task's estimate later, 30 minutes later when the estimate is absent or zero,
\* whatever the work-day end is.
C5_FirstBlock ==
    (PackDone /\ PackTasks # <<>>) =>
        /\ Len(Sched) >= 1
        /\ StartOf(1) = WinStart
        /\ EndOf(1) = ClockPlus(WinStart,
                                IF PackTasks[1].est_min = None
                                       \/ PackTasks[1].est_min = PyInt(0)
                                THEN 30
                                ELSE PackTasks[1].est_min.v)

\* C5 witness: one 90-minute task from 09:00 in a day that ends at 10:00 gives
\* the block 09:00 to 10:30
C5_Witness ==
    /\ PackDone
    /\ Len(PackTasks) = 1
    /\ PackTasks[1].est_min = PyInt(90)
    /\ pack.day_start = <<9, 0>>
    /\ pack.day_end = <<10, 0>>
    /\ Sched[1].start = <<9, 0>>
    /\ Sched[1].end = <<10, 30>>

----------------------------------------------------------------------------
(* SpecParse: parse_tasks, then tasks_to_lines, then parse_tasks again, on   *)
(* every short text over the alphabet and on texts written field by field    *)
(* in the form 'name | minutes | due | context'                              *)

MaxRawLen == 5
MaxFormLines == 1

Alphabet == {"a", "1", "0", "|", " ", "\n"}
ShortTexts == UNION {[1..n -> Alphabet] : n \in 0..MaxRawLen}

FormNames == {<<>>, <<"a">>}
FormMinutes == {<<>>, <<"0">>, <<"7">>, <<"0", "7">>, <<"6", "0">>}
FormDues == {<<>>, <<"d">>}
FormContexts == {<<>>, <<"c">>}
FormFields ==
    [name : FormNames, minutes : FormMinutes, due : FormDues,
     context : FormContexts]
FormSeqs == UNION {[1..n -> FormFields] : n \in 1..MaxFormLines}

\* the line 'name | minutes | due | context'
FormLine(f) ==
    f.name \o <<" ", "|", " ">> \o f.minutes \o <<" ", "|", " ">> \o f.due
        \o <<" ", "|", " ">> \o f.context

RECURSIVE FormText(_)
FormText(fs) ==
    IF Len(fs) = 1 THEN FormLine(fs[1])
    ELSE FormLine(fs[1]) \o <<"\n">> \o FormText(Tail(fs))

ParseInit ==
    /\ trip \in
           {[stage |-> "raw", raw |-> r, form |-> <<>>, parsed |-> <<>>,
             lines |-> <<>>, reparsed |-> <<>>] : r \in ShortTexts}
           \cup
           {[stage |-> "raw", raw |-> FormText(fs), form |-> fs, parsed |-> <<>>,
             lines |-> <<>>, reparsed |-> <<>>] : fs \in FormSeqs}
    /\ hasToken = FALSE
    /\ session = NoSession
    /\ run = NoRun
    /\ pack = NoPack

Parse ==
    /\ trip.stage = "raw"
    /\ trip' = [trip EXCEPT !.stage = "parsed", !.parsed = parse_tasks(trip.raw)]
    /\ UNCHANGED <<hasToken, session, run, pack>>

Serialize ==
    /\ trip.stage = "parsed"
    /\ trip' = [trip EXCEPT !.stage = "serialized",
                            !.lines = tasks_to_lines(trip.parsed)]
    /\ UNCHANGED <<hasToken, session, run, pack>>

Reparse ==
    /\ trip.stage = "serialized"
    /\ trip' = [trip EXCEPT !.stage = "reparsed",
                            !.reparsed = parse_tasks(trip.lines)]
    /\ UNCHANGED <<hasToken, session, run, pack>>

ParseNext == Parse \/ Serialize \/ Reparse

SpecParse == ParseInit /\ [][ParseNext]_vars

----------------------------------------------------------------------------
(* Claims about parse_tasks and tasks_to_lines (SpecParse) *)

TripDone == trip.stage = "reparsed"

\* C6, as claimed (stated for records with a name): serializing and parsing
\* again returns every parsed record, and a text written in the form
\* 'name | minutes | due | context' is reproduced by parsing and serializing it.
C6_RoundTripAsClaimed ==
    (TripDone /\ \A i \in 1..Len(trip.parsed) : trip.parsed[i].task # <<>>) =>
        /\ trip.reparsed = trip.parsed
        /\ (trip.form # <<>> => trip.lines = trip.raw)

\* the optional fields that are present form a prefix of (minutes, due,
\* context), the minutes are positive, and the record is not empty
PrefixRecord(t) ==
    /\ t.est_min = None \/ t.est_min.v > 0
    /\ t.due # None => t.est_min # None
    /\ t.context # <<>> => t.due # None
    /\ t.task # <<>> \/ t.est_min # None

\* all three optional fields are written, the minutes as a positive decimal
\* number without a leading zero
FullLine(f) ==
    /\ f.minutes # <<>>
    /\ Head(f.minutes) # "0"
    /\ f.due # <<>>
    /\ f.context # <<>>

\* C6, amended: serializing and parsing again returns the parsed records when
\* in each of them the present optional fields form a prefix of (minutes, due,
\* context) with positive minutes and the record is not empty; and a text in
\* the form 'name | minutes | due | context' with all three optional fields
\* written, the minutes a positive decimal without a leading zero, is
\* reproduced by parsing and serializing it.
C6_RoundTrip ==
    TripDone =>
        /\ (\A i \in 1..Len(trip.parsed) : PrefixRecord(trip.parsed[i])) =>
               trip.reparsed = trip.parsed
        /\ (trip.form # <<>> /\ \A i \in 1..Len(trip.form) : FullLine(trip.form[i])) =>
               trip.lines = trip.raw

\* C6 witness: a line with all four fields went through the round trip
C6_Witness ==
    /\ TripDone
    /\ trip.form # <<>>
    /\ FullLine(trip.form[1])
    /\ Len(trip.parsed) = 1
    /\ trip.parsed[1].est_min = PyInt(60)
    /\ trip.parsed[1].due = PyStr(<<"d">>)
    /\ trip.parsed[1].context = <<"c">>
    /\ trip.reparsed = trip.parsed

----------------------------------------------------------------------------
(* Claims about the remote call, its fallbacks and the page (Spec) *)

\* the remote call of the last run ended in a timeout, a non-200 status, or a
\* body or generated text that is not valid structured output
RemoteFailed ==
    /\ run.requested
    /\ \/ ~run.response.arrived
       \/ run.response.status # 200
       \/ run.response.body = "not_json"
       \/ /\ run.called \in {"ai_prioritize", "ai_daily_plan"}
          /\ run.response.body \in {"generated_list", "generated_dict"}
          /\ run.response.text.kind = "prose"

\* C7: whenever the remote call of ai_prioritize, ai_daily_plan or ai_nudges
\* ends in a non-200 status, a timeout or a body that is not valid structured
\* output, the operation returns its local fallback and no exception reaches
\* main (stated for sessions whose 'prioritized' is a list of task objects).
C7_FailureGivesFallback ==
    (/\ RemoteFailed
     /\ "prioritized" \in DOMAIN session => session["prioritized"].shape = "tasks")
        => (run.fallback /\ ~run.op_raised)

\* C8: when HF_TOKEN is missing, an operation that needs the remote call
\* reports the missing credential and does not return its fallback as if the
\* call had succeeded.
C8_MissingTokenReported ==
    (run.called # "none" /\ ~hasToken) =>
        /\ "error: HF_TOKEN not found in Streamlit secrets." \in run.shown
        /\ ~run.fallback

\* C9: pressing 'Analyze & Prioritize' on a text that parses to no task only
\* warns: ai_prioritize is not called, no remote request is issued and the
\* session is unchanged; pressing 'Generate Today's Plan' without 'prioritized'
\* in the session only warns; and 'plan' is in the session only if
\* 'prioritized' is.
C9_ValidationOnly ==
    /\ []("plan" \in DOMAIN session => "prioritized" \in DOMAIN session)
    /\ [][(run'.button = "analyze" /\ run'.tasks = <<>>) =>
              /\ session' = session
              /\ run'.shown = {"warning: Please enter tasks first."}
              /\ run'.called = "none"
              /\ ~run'.requested]_vars
    /\ [][(run'.button = "plan" /\ "prioritized" \notin DOMAIN session) =>
              /\ session' = session
              /\ run'.shown = {"warning: Generate prioritization first."}
              /\ run'.called = "none"
              /\ ~run'.requested]_vars

\* C9 witness: only blank lines were analyzed, with a list and a plan in the
\* session, and the page warned
C9_Witness ==
    /\ run.button = "analyze"
    /\ run.raw = BlankLine
    /\ run.tasks = <<>>
    /\ run.shown = {"warning: Please enter tasks first."}
    /\ "prioritized" \in DOMAIN session
    /\ "plan" \in DOMAIN session

\* the last run was 'Analyze & Prioritize' and ai_prioritize fell back
AnalyzeFellBack == run.button = "analyze" /\ run.called = "ai_prioritize" /\ run.fallback
ParsedTasks == parse_tasks(run.raw)
Prioritized == session["prioritized"].items

\* what C10 says of every field but est_min
C10_Fields ==
    /\ Len(Prioritized) = Len(ParsedTasks)
    /\ \A k \in 1..Len(ParsedTasks) :
           /\ Prioritized[k].task = ParsedTasks[k].task
           /\ Prioritized[k].due = ParsedTasks[k].due
           /\ Prioritized[k].priority_score =
                  (IF 100 - 10 * (k - 1) > 10 THEN 100 - 10 * (k - 1) ELSE 10)
           /\ Prioritized[k].priority_score \in 10..100
           /\ (k > 1 => Prioritized[k].priority_score <= Prioritized[k - 1].priority_score)
           /\ Prioritized[k].quadrant = (IF k <= 2 THEN "Do now" ELSE "Schedule")

\* C10, as claimed: the fallback of ai_prioritize returns one entry per task, in
\* order, with the task's name and due date, priority_score max(100 - 10*i, 10),
\* quadrant 'Do now' for the first two and 'Schedule' after, and est_min the
\* parsed estimate, or 30 when the estimate is absent.
C10_FallbackAsClaimed ==
    AnalyzeFellBack =>
        /\ C10_Fields
        /\ \A k \in 1..Len(ParsedTasks) :
               Prioritized[k].est_min =
                   (IF ParsedTasks[k].est_min = None THEN PyInt(30)
                    ELSE ParsedTasks[k].est_min)

\* C10, amended: as claimed, with est_min the parsed estimate, or 30 when the
\* estimate is absent or zero.
C10_Fallback ==
    AnalyzeFellBack =>
        /\ C10_Fields
        /\ \A k \in 1..Len(ParsedTasks) :
               Prioritized[k].est_min =
                   (IF ParsedTasks[k].est_min = None
                          \/ ParsedTasks[k].est_min = PyInt(0)
                    THEN PyInt(30)
                    ELSE ParsedTasks[k].est_min)

\* C10 witness: the fallback ranked a list long enough for the score to stop
\* at 10
C10_Witness ==
    /\ AnalyzeFellBack
    /\ Len(Prioritized) >= 11
    /\ Prioritized[10].priority_score = 10
    /\ Prioritized[11].priority_score = 10
    /\ Prioritized[3].est_min = PyInt(90)
    /\ Prioritized[2].est_min = PyInt(30)

====
